---- MODULE Spec2Model ----
(***************************************************************************)
(* Verification model of project-sailor's alert access layer:              *)
(*   sailor/pai/alert.py       Alert, AlertSet.as_df, find_alerts,         *)
(*                             create_alert                                *)
(*   sailor/utils/timestamps.py  timestamp helpers                         *)
(*                                                                         *)
(* Python strings whose characters the code inspects (attribute names,     *)
(* raw keys, filter expressions) are sequences of one-character strings;   *)
(* opaque values are TLA+ strings.  A Python dict is a sequence of         *)
(* <<key, value>> pairs with pairwise distinct keys, in insertion order.   *)
(***************************************************************************)
EXTENDS Integers, Sequences, FiniteSets, TLC

VARIABLES
    cache,      \* functools.cache behind Alert._custom_properties: key -> bag
    elements,   \* the elements of the AlertSet under construction
    df,         \* the last AlertSet.as_df call and its outcome
    find,       \* the last find_alerts call: arguments, fetch calls, outcome
    create,     \* the create_alert call in progress: position, requests, outcome
    tcall       \* the last call of a timestamp helper and its outcome

vars == <<cache, elements, df, find, create, tcall>>

----------------------------------------------------------------------------
(* Bounds of the model. *)

MaxAlerts == 2      \* alerts constructed in one run

----------------------------------------------------------------------------
(* Python built-ins. *)

\* Python's None
None == "<None>"

\* str.startswith
startswith(s, prefix) ==
    /\ Len(s) >= Len(prefix)
    /\ SubSeq(s, 1, Len(prefix)) = prefix

\* the range of a sequence
Range(s) == {s[i] : i \in 1..Len(s)}

\* dict.keys(), in insertion order
Keys(d) == [i \in 1..Len(d) |-> d[i][1]]

\* key in dict
HasKey(d, k) == \E i \in 1..Len(d) : d[i][1] = k

\* dict[key]
Get(d, k) == d[CHOOSE i \in 1..Len(d) : d[i][1] = k][2]

\* the keys of a dict literal or comprehension: a later duplicate is dropped
Dedup(s) ==
    LET first == SelectSeq([i \in 1..Len(s) |-> i],
                           LAMBDA i : \A j \in 1..(i - 1) : s[j] # s[i])
    IN [k \in 1..Len(first) |-> s[first[k]]]

\* the value of a decimal digit
DigitValue(c) ==
    CASE c = "0" -> 0 [] c = "1" -> 1 [] c = "2" -> 2 [] c = "3" -> 3
      [] c = "4" -> 4 [] c = "5" -> 5 [] c = "6" -> 6 [] c = "7" -> 7
      [] c = "8" -> 8 [] c = "9" -> 9

\* float() of a string of decimal digits
RECURSIVE ParseNumber(_)
ParseNumber(s) ==
    IF s = <<>> THEN 0
    ELSE 10 * ParseNumber(SubSeq(s, 1, Len(s) - 1)) + DigitValue(s[Len(s)])

----------------------------------------------------------------------------
(* The Alert field table. *)

\* an omitted third positional argument
NoName == <<>>

\* _PredictiveAssetInsightsField(our_name, wire name[, query name], ...): the
\* query name defaults to the wire name
PredictiveAssetInsightsField(our_name, wire_name, query_name, is_mandatory, get_extractor, query_transformer) ==
    [our_name |-> our_name, wire_name |-> wire_name,
     query_name |-> IF query_name = NoName THEN wire_name ELSE query_name,
     is_mandatory |-> is_mandatory,
     get_extractor |-> get_extractor, query_transformer |-> query_transformer]

ALERT_FIELDS == <<
    \* description, Description, description
    PredictiveAssetInsightsField(<<"d","e","s","c","r","i","p","t","i","o","n">>,
        <<"D","e","s","c","r","i","p","t","i","o","n">>,
        <<"d","e","s","c","r","i","p","t","i","o","n">>, FALSE, "default", "default"),
    \* severity_code, SeverityCode, severityCode
    PredictiveAssetInsightsField(<<"s","e","v","e","r","i","t","y","_","c","o","d","e">>,
        <<"S","e","v","e","r","i","t","y","C","o","d","e">>,
        <<"s","e","v","e","r","i","t","y","C","o","d","e">>, TRUE, "default", "qt_double"),
    \* category, Category
    PredictiveAssetInsightsField(<<"c","a","t","e","g","o","r","y">>,
        <<"C","a","t","e","g","o","r","y">>,
        NoName, FALSE, "default", "default"),
    \* equipment_name, EquipmentName
    PredictiveAssetInsightsField(<<"e","q","u","i","p","m","e","n","t","_","n","a","m","e">>,
        <<"E","q","u","i","p","m","e","n","t","N","a","m","e">>,
        NoName, FALSE, "default", "default"),
    \* model_name, ModelName
    PredictiveAssetInsightsField(<<"m","o","d","e","l","_","n","a","m","e">>,
        <<"M","o","d","e","l","N","a","m","e">>,
        NoName, FALSE, "default", "default"),
    \* indicator_name, IndicatorName
    PredictiveAssetInsightsField(<<"i","n","d","i","c","a","t","o","r","_","n","a","m","e">>,
        <<"I","n","d","i","c","a","t","o","r","N","a","m","e">>,
        NoName, FALSE, "default", "default"),
    \* indicator_group_name, IndicatorGroupName
    PredictiveAssetInsightsField(<<"i","n","d","i","c","a","t","o","r","_","g","r","o","u","p","_","n","a","m","e">>,
        <<"I","n","d","i","c","a","t","o","r","G","r","o","u","p","N","a","m","e">>,
        NoName, FALSE, "default", "default"),
    \* template_name, TemplateName
    PredictiveAssetInsightsField(<<"t","e","m","p","l","a","t","e","_","n","a","m","e">>,
        <<"T","e","m","p","l","a","t","e","N","a","m","e">>,
        NoName, FALSE, "default", "default"),
    \* count, Count
    PredictiveAssetInsightsField(<<"c","o","u","n","t">>,
        <<"C","o","u","n","t">>,
        NoName, FALSE, "default", "qt_double"),
    \* status_code, StatusCode
    PredictiveAssetInsightsField(<<"s","t","a","t","u","s","_","c","o","d","e">>,
        <<"S","t","a","t","u","s","C","o","d","e">>,
        NoName, FALSE, "default", "qt_double"),
    \* triggered_on, TriggeredOn, triggeredOn
    PredictiveAssetInsightsField(<<"t","r","i","g","g","e","r","e","d","_","o","n">>,
        <<"T","r","i","g","g","e","r","e","d","O","n">>,
        <<"t","r","i","g","g","e","r","e","d","O","n">>, TRUE, "odata_to_timestamp", "qt_odata_datetimeoffset"),
    \* last_occured_on, LastOccuredOn
    PredictiveAssetInsightsField(<<"l","a","s","t","_","o","c","c","u","r","e","d","_","o","n">>,
        <<"L","a","s","t","O","c","c","u","r","e","d","O","n">>,
        NoName, FALSE, "odata_to_timestamp", "qt_odata_datetimeoffset"),
    \* type_description, AlertTypeDescription
    PredictiveAssetInsightsField(<<"t","y","p","e","_","d","e","s","c","r","i","p","t","i","o","n">>,
        <<"A","l","e","r","t","T","y","p","e","D","e","s","c","r","i","p","t","i","o","n">>,
        NoName, FALSE, "default", "default"),
    \* error_code_description, ErrorCodeDescription
    PredictiveAssetInsightsField(<<"e","r","r","o","r","_","c","o","d","e","_","d","e","s","c","r","i","p","t","i","o","n">>,
        <<"E","r","r","o","r","C","o","d","e","D","e","s","c","r","i","p","t","i","o","n">>,
        NoName, FALSE, "default", "default"),
    \* type, AlertType, alertType
    PredictiveAssetInsightsField(<<"t","y","p","e">>,
        <<"A","l","e","r","t","T","y","p","e">>,
        <<"a","l","e","r","t","T","y","p","e">>, TRUE, "default", "default"),
    \* source, Source, source
    PredictiveAssetInsightsField(<<"s","o","u","r","c","e">>,
        <<"S","o","u","r","c","e">>,
        <<"s","o","u","r","c","e">>, FALSE, "default", "default"),
    \* id, AlertId
    PredictiveAssetInsightsField(<<"i","d">>,
        <<"A","l","e","r","t","I","d">>,
        NoName, FALSE, "default", "default"),
    \* equipment_id, EquipmentID, equipmentId
    PredictiveAssetInsightsField(<<"e","q","u","i","p","m","e","n","t","_","i","d">>,
        <<"E","q","u","i","p","m","e","n","t","I","D">>,
        <<"e","q","u","i","p","m","e","n","t","I","d">>, TRUE, "default", "default"),
    \* model_id, ModelID
    PredictiveAssetInsightsField(<<"m","o","d","e","l","_","i","d">>,
        <<"M","o","d","e","l","I","D">>,
        NoName, FALSE, "default", "default"),
    \* template_id, TemplateID, templateId
    PredictiveAssetInsightsField(<<"t","e","m","p","l","a","t","e","_","i","d">>,
        <<"T","e","m","p","l","a","t","e","I","D">>,
        <<"t","e","m","p","l","a","t","e","I","d">>, FALSE, "default", "default"),
    \* indicator_id, IndicatorID, indicatorId
    PredictiveAssetInsightsField(<<"i","n","d","i","c","a","t","o","r","_","i","d">>,
        <<"I","n","d","i","c","a","t","o","r","I","D">>,
        <<"i","n","d","i","c","a","t","o","r","I","d">>, FALSE, "default", "default"),
    \* indicator_group_id, IndicatorGroupID, indicatorGroupId
    PredictiveAssetInsightsField(<<"i","n","d","i","c","a","t","o","r","_","g","r","o","u","p","_","i","d">>,
        <<"I","n","d","i","c","a","t","o","r","G","r","o","u","p","I","D">>,
        <<"i","n","d","i","c","a","t","o","r","G","r","o","u","p","I","d">>, FALSE, "default", "default"),
    \* notification_id, NotificationId
    PredictiveAssetInsightsField(<<"n","o","t","i","f","i","c","a","t","i","o","n","_","i","d">>,
        <<"N","o","t","i","f","i","c","a","t","i","o","n","I","d">>,
        NoName, FALSE, "default", "default"),
    \* error_code_id, ErrorCodeID, errorCodeId
    PredictiveAssetInsightsField(<<"e","r","r","o","r","_","c","o","d","e","_","i","d">>,
        <<"E","r","r","o","r","C","o","d","e","I","D">>,
        <<"e","r","r","o","r","C","o","d","e","I","d">>, FALSE, "default", "default"),
    \* _indicator_description, IndicatorDescription
    PredictiveAssetInsightsField(<<"_","i","n","d","i","c","a","t","o","r","_","d","e","s","c","r","i","p","t","i","o","n">>,
        <<"I","n","d","i","c","a","t","o","r","D","e","s","c","r","i","p","t","i","o","n">>,
        NoName, FALSE, "default", "default"),
    \* _country_id, CountryID
    PredictiveAssetInsightsField(<<"_","c","o","u","n","t","r","y","_","i","d">>,
        <<"C","o","u","n","t","r","y","I","D">>,
        NoName, FALSE, "default", "default"),
    \* _functional_location_id, FunctionalLocationID
    PredictiveAssetInsightsField(<<"_","f","u","n","c","t","i","o","n","a","l","_","l","o","c","a","t","i","o","n","_","i","d">>,
        <<"F","u","n","c","t","i","o","n","a","l","L","o","c","a","t","i","o","n","I","D">>,
        NoName, FALSE, "default", "default"),
    \* _maintenance_plant, MaintenancePlant
    PredictiveAssetInsightsField(<<"_","m","a","i","n","t","e","n","a","n","c","e","_","p","l","a","n","t">>,
        <<"M","a","i","n","t","e","n","a","n","c","e","P","l","a","n","t">>,
        NoName, FALSE, "default", "default"),
    \* _functional_location_description, FunctionalLocationDescription
    PredictiveAssetInsightsField(<<"_","f","u","n","c","t","i","o","n","a","l","_","l","o","c","a","t","i","o","n","_","d","e","s","c","r","i","p","t","i","o","n">>,
        <<"F","u","n","c","t","i","o","n","a","l","L","o","c","a","t","i","o","n","D","e","s","c","r","i","p","t","i","o","n">>,
        NoName, FALSE, "default", "default"),
    \* _top_functional_location_name, TopFunctionalLocationName
    PredictiveAssetInsightsField(<<"_","t","o","p","_","f","u","n","c","t","i","o","n","a","l","_","l","o","c","a","t","i","o","n","_","n","a","m","e">>,
        <<"T","o","p","F","u","n","c","t","i","o","n","a","l","L","o","c","a","t","i","o","n","N","a","m","e">>,
        NoName, FALSE, "default", "default"),
    \* _planner_group, PlannerGroup
    PredictiveAssetInsightsField(<<"_","p","l","a","n","n","e","r","_","g","r","o","u","p">>,
        <<"P","l","a","n","n","e","r","G","r","o","u","p">>,
        NoName, FALSE, "default", "default"),
    \* _ref_alert_type_id, RefAlertTypeId
    PredictiveAssetInsightsField(<<"_","r","e","f","_","a","l","e","r","t","_","t","y","p","e","_","i","d">>,
        <<"R","e","f","A","l","e","r","t","T","y","p","e","I","d">>,
        NoName, FALSE, "default", "default"),
    \* _operator_name, OperatorName
    PredictiveAssetInsightsField(<<"_","o","p","e","r","a","t","o","r","_","n","a","m","e">>,
        <<"O","p","e","r","a","t","o","r","N","a","m","e">>,
        NoName, FALSE, "default", "default"),
    \* _created_by, CreatedBy
    PredictiveAssetInsightsField(<<"_","c","r","e","a","t","e","d","_","b","y">>,
        <<"C","r","e","a","t","e","d","B","y">>,
        NoName, FALSE, "default", "default"),
    \* _changed_by, ChangedBy
    PredictiveAssetInsightsField(<<"_","c","h","a","n","g","e","d","_","b","y">>,
        <<"C","h","a","n","g","e","d","B","y">>,
        NoName, FALSE, "default", "default"),
    \* _serial_number, SerialNumber
    PredictiveAssetInsightsField(<<"_","s","e","r","i","a","l","_","n","u","m","b","e","r">>,
        <<"S","e","r","i","a","l","N","u","m","b","e","r">>,
        NoName, FALSE, "default", "default"),
    \* _changed_on, ChangedOn
    PredictiveAssetInsightsField(<<"_","c","h","a","n","g","e","d","_","o","n">>,
        <<"C","h","a","n","g","e","d","O","n">>,
        NoName, FALSE, "odata_to_timestamp", "qt_odata_datetimeoffset"),
    \* _processor, Processor
    PredictiveAssetInsightsField(<<"_","p","r","o","c","e","s","s","o","r">>,
        <<"P","r","o","c","e","s","s","o","r">>,
        NoName, FALSE, "default", "default"),
    \* _top_equipment_id, TopEquipmentID
    PredictiveAssetInsightsField(<<"_","t","o","p","_","e","q","u","i","p","m","e","n","t","_","i","d">>,
        <<"T","o","p","E","q","u","i","p","m","e","n","t","I","D">>,
        NoName, FALSE, "default", "default"),
    \* _planning_plant, PlanningPlant
    PredictiveAssetInsightsField(<<"_","p","l","a","n","n","i","n","g","_","p","l","a","n","t">>,
        <<"P","l","a","n","n","i","n","g","P","l","a","n","t">>,
        NoName, FALSE, "default", "default"),
    \* _operator_id, OperatorID
    PredictiveAssetInsightsField(<<"_","o","p","e","r","a","t","o","r","_","i","d">>,
        <<"O","p","e","r","a","t","o","r","I","D">>,
        NoName, FALSE, "default", "default"),
    \* _top_equipment_name, TopEquipmentName
    PredictiveAssetInsightsField(<<"_","t","o","p","_","e","q","u","i","p","m","e","n","t","_","n","a","m","e">>,
        <<"T","o","p","E","q","u","i","p","m","e","n","t","N","a","m","e">>,
        NoName, FALSE, "default", "default"),
    \* _created_on, CreatedOn
    PredictiveAssetInsightsField(<<"_","c","r","e","a","t","e","d","_","o","n">>,
        <<"C","r","e","a","t","e","d","O","n">>,
        NoName, FALSE, "odata_to_timestamp", "qt_odata_datetimeoffset"),
    \* _model_description, ModelDescription
    PredictiveAssetInsightsField(<<"_","m","o","d","e","l","_","d","e","s","c","r","i","p","t","i","o","n">>,
        <<"M","o","d","e","l","D","e","s","c","r","i","p","t","i","o","n">>,
        NoName, FALSE, "default", "default"),
    \* _top_equipment_description, TopEquipmentDescription
    PredictiveAssetInsightsField(<<"_","t","o","p","_","e","q","u","i","p","m","e","n","t","_","d","e","s","c","r","i","p","t","i","o","n">>,
        <<"T","o","p","E","q","u","i","p","m","e","n","t","D","e","s","c","r","i","p","t","i","o","n">>,
        NoName, FALSE, "default", "default"),
    \* _functional_location_name, FunctionalLocationName
    PredictiveAssetInsightsField(<<"_","f","u","n","c","t","i","o","n","a","l","_","l","o","c","a","t","i","o","n","_","n","a","m","e">>,
        <<"F","u","n","c","t","i","o","n","a","l","L","o","c","a","t","i","o","n","N","a","m","e">>,
        NoName, FALSE, "default", "default"),
    \* _top_functional_location_description, TopFunctionalLocationDescription
    PredictiveAssetInsightsField(<<"_","t","o","p","_","f","u","n","c","t","i","o","n","a","l","_","l","o","c","a","t","i","o","n","_","d","e","s","c","r","i","p","t","i","o","n">>,
        <<"T","o","p","F","u","n","c","t","i","o","n","a","l","L","o","c","a","t","i","o","n","D","e","s","c","r","i","p","t","i","o","n">>,
        NoName, FALSE, "default", "default"),
    \* _top_functional_location_id, TopFunctionalLocationID
    PredictiveAssetInsightsField(<<"_","t","o","p","_","f","u","n","c","t","i","o","n","a","l","_","l","o","c","a","t","i","o","n","_","i","d">>,
        <<"T","o","p","F","u","n","c","t","i","o","n","a","l","L","o","c","a","t","i","o","n","I","D">>,
        NoName, FALSE, "default", "default"),
    \* _equipment_description, EquipmentDescription
    PredictiveAssetInsightsField(<<"_","e","q","u","i","p","m","e","n","t","_","d","e","s","c","r","i","p","t","i","o","n">>,
        <<"E","q","u","i","p","m","e","n","t","D","e","s","c","r","i","p","t","i","o","n">>,
        NoName, FALSE, "default", "default")
>>

\* field.is_exposed: names with the internal-marker prefix are not exposed
is_exposed(field) == ~startswith(field.our_name, <<"_">>)

\* Alert._field_map = {field.our_name: field for field in _ALERT_FIELDS};
\* a dict comprehension keeps the first position and the last value of a key
field_map_of(fields) ==
    LET names == Dedup([i \in 1..Len(fields) |-> fields[i].our_name])
    IN [k \in 1..Len(names) |->
          <<names[k],
            fields[CHOOSE i \in 1..Len(fields) :
                     /\ fields[i].our_name = names[k]
                     /\ \A j \in (i + 1)..Len(fields) :
                            fields[j].our_name # names[k]]>>]

field_map == field_map_of(ALERT_FIELDS)

\* mutant of exposed_names_of: the is_exposed filter is missing
exposed_names_unfiltered(fmap) == [i \in 1..Len(fmap) |-> fmap[i][2].our_name]

\* [field.our_name for field in _field_map.values() if field.is_exposed]
exposed_names_of(fmap) ==
    LET exposed == SelectSeq(fmap, LAMBDA kv : is_exposed(kv[2]))
    IN [i \in 1..Len(exposed) |-> exposed[i][2].our_name]

DefaultColumns == exposed_names_of(field_map)

\* attribute and wire names the code names literally
attr_type == <<"t","y","p","e">>
attr_id == <<"i","d">>
wire_AlertId == <<"A","l","e","r","t","I","d">>
wire_AlertType == <<"A","l","e","r","t","T","y","p","e">>
prefix_Z == <<"Z","_">>
prefix_z == <<"z","_">>

----------------------------------------------------------------------------
(* Timestamp parser used as extractor by the field table. *)

\* _odata_to_timestamp_parser(unit='ms'):
\*   pd.Timestamp(float(value[6:-2]), unit=unit, tz='UTC')
odata_to_timestamp_parser(value) ==
    [epoch_ms |-> ParseNumber(SubSeq(value, 7, Len(value) - 2)), tz |-> "UTC"]

\* field.get_extractor(value)
Extract(field, value) ==
    IF field.get_extractor = "odata_to_timestamp"
    THEN odata_to_timestamp_parser(value)
    ELSE value

----------------------------------------------------------------------------
(* Raw objects as the read endpoint returns them. *)

AlertTypes == {"TypeA", "TypeB", None}

\* "/Date(1000)/"
WireDate == <<"/","D","a","t","e","(","1","0","0","0",")","/">>

key_Z_mycustom == <<"Z","_","m","y","c","u","s","t","o","m">>
key_z_another == <<"z","_","a","n","o","t","h","e","r">>

\* tenant-defined properties a raw object may carry after the declared ones
CustomParts ==
    { <<>>,
      << <<key_Z_mycustom, "mycustom">> >>,
      << <<key_z_another, "another">> >>,
      << <<key_Z_mycustom, "mycustom">>, <<key_z_another, "another">> >> }

\* every exposed declared property, then the custom ones
RawObject(id, type, custom) ==
    LET exposed == SelectSeq(ALERT_FIELDS, is_exposed)
    IN [i \in 1..Len(exposed) |->
          <<exposed[i].wire_name,
            IF exposed[i].wire_name = wire_AlertId THEN id
            ELSE IF exposed[i].wire_name = wire_AlertType THEN type
            ELSE IF exposed[i].get_extractor = "odata_to_timestamp" THEN WireDate
            ELSE "v">>] \o custom

\* alerts "id1" of every type and alerts "id2" of the first type
RawObjects ==
    {RawObject("id1", type, custom) : type \in AlertTypes, custom \in CustomParts}
      \cup {RawObject("id2", "TypeA", custom) : custom \in CustomParts}

----------------------------------------------------------------------------
(* Alert. *)

\* the dict comprehension of Alert._custom_properties
custom_properties_of(raw) ==
    SelectSeq(raw, LAMBDA kv : startswith(kv[1], prefix_Z) \/ startswith(kv[1], prefix_z))

\* hash and equality of an entity follow its identifier, and they key the
\* functools.cache lookup of a method call on it
CacheKey(raw) == Get(raw, wire_AlertId)

\* @cache: a hit returns the stored result, a miss computes and stores it
cache_after(c, raw) ==
    IF CacheKey(raw) \in DOMAIN c THEN c
    ELSE c @@ (CacheKey(raw) :> custom_properties_of(raw))

\* Alert._custom_properties, read through the cache
custom_properties(c, alert) == c[CacheKey(alert.raw)]

\* Alert.__init__: keep raw, then setattr every custom property
Alert(c, raw) ==
    [raw |-> raw, attrs |-> cache_after(c, raw)[CacheKey(raw)]]

\* hasattr(alert, name): a declared property whose wire name is in raw, or an
\* attribute set by __init__
HasAttr(alert, name) ==
    IF HasKey(field_map, name)
    THEN HasKey(alert.raw, Get(field_map, name).wire_name)
    ELSE HasKey(alert.attrs, name)

\* getattr(alert, name)
GetAttr(alert, name) ==
    IF HasKey(field_map, name)
    THEN Extract(Get(field_map, name),
                 Get(alert.raw, Get(field_map, name).wire_name))
    ELSE Get(alert.attrs, name)

\* no call made yet
NoCall == [result |-> [kind |-> "none"]]

NewAlert ==
    /\ df = NoCall
    /\ Len(elements) < MaxAlerts
    /\ \E raw \in RawObjects :
          /\ cache' = cache_after(cache, raw)
          /\ elements' = Append(elements, Alert(cache, raw))
    /\ UNCHANGED <<df, find, create, tcall>>

----------------------------------------------------------------------------
(* AlertSet.as_df. *)

Raise(error) == [kind |-> "raise", error |-> error]
Table(header, rows) == [kind |-> "table", header |-> header, rows |-> rows]

\* position of a column in a header
ColumnIndex(header, name) == CHOOSE j \in 1..Len(header) : header[j] = name

\* PredictiveAssetInsightsEntitySet.as_df(columns): one column per distinct
\* requested name, one row per element, each cell read with getattr
base_as_df(self, columns) ==
    LET header == Dedup(columns)
    IN IF \E i \in 1..Len(self), j \in 1..Len(header) : ~HasAttr(self[i], header[j])
       THEN Raise("AttributeError")
       ELSE Table(header,
                  [i \in 1..Len(self) |->
                      [j \in 1..Len(header) |-> GetAttr(self[i], header[j])]])

\* df[column].nunique(): the number of distinct values, None/NaN not counted
nunique(table, column) ==
    Cardinality({table.rows[i][ColumnIndex(table.header, column)] :
                    i \in 1..Len(table.rows)} \ {None})

RECURSIVE Flatten(_)
Flatten(ss) == IF ss = <<>> THEN <<>> ELSE Head(ss) \o Flatten(Tail(ss))

\* left.merge(right): inner join on the columns the two tables share, left
\* row order kept, the right table's other columns appended
merge(left, right) ==
    LET on == SelectSeq(left.header, LAMBDA name : name \in Range(right.header))
        others == SelectSeq(right.header, LAMBDA name : name \notin Range(left.header))
        Matches(lrow, rrow) ==
            \A k \in 1..Len(on) :
                lrow[ColumnIndex(left.header, on[k])]
                    = rrow[ColumnIndex(right.header, on[k])]
        Joined(lrow) ==
            LET found == SelectSeq(right.rows, LAMBDA rrow : Matches(lrow, rrow))
            IN [k \in 1..Len(found) |->
                  lrow \o [m \in 1..Len(others) |->
                             found[k][ColumnIndex(right.header, others[m])]]]
    IN IF on = <<>> THEN Raise("MergeError")
       ELSE Table(left.header \o others,
                  Flatten([i \in 1..Len(left.rows) |-> Joined(left.rows[i])]))

\* df.drop(columns=name, inplace=True)
drop(table, name) ==
    LET keep == SelectSeq([j \in 1..Len(table.header) |-> j],
                          LAMBDA j : table.header[j] # name)
    IN Table([k \in 1..Len(keep) |-> table.header[keep[k]]],
             [i \in 1..Len(table.rows) |->
                 [k \in 1..Len(keep) |-> table.rows[i][keep[k]]]])

\* the columns argument: None, or a list of names
NoColumns == [given |-> FALSE, names |-> <<>>]
Columns(names) == [given |-> TRUE, names |-> names]

attr_severity_code == <<"s","e","v","e","r","i","t","y","_","c","o","d","e">>

ColumnArgs ==
    { NoColumns,
      Columns(<<attr_id>>),
      Columns(<<attr_type, attr_id>>),
      Columns(<<attr_severity_code>>),
      Columns(<<attr_id, key_Z_mycustom>>) }

\* custom_columns = list(self[0]._custom_properties.keys()) + ['id']
custom_columns(c, self) == Keys(custom_properties(c, self[1])) \o <<attr_id>>

\* the include_all_custom_properties branch of as_df
as_df_custom(c, self, table) ==
    IF nunique(table, attr_type) > 1
    THEN Raise("RuntimeError")
    ELSE LET df_custom == base_as_df(self, custom_columns(c, self))
         IN IF df_custom.kind = "raise" THEN df_custom
            ELSE merge(table, df_custom)

\* requested columns of a call
requested(columns) == IF columns.given THEN columns.names ELSE DefaultColumns

\* mutant of as_df: the final drop of 'type' is missing
as_df_keeps_type(c, self, columns, include_all_custom_properties) ==
    LET first == base_as_df(self, requested(columns) \o <<attr_type>>)
    IN IF first.kind = "table" /\ Len(self) > 0 /\ include_all_custom_properties
       THEN as_df_custom(c, self, first)
       ELSE first

\* AlertSet.as_df(columns, include_all_custom_properties)
as_df(c, self, columns, include_all_custom_properties) ==
    LET cols == requested(columns)
        first == base_as_df(self, cols \o <<attr_type>>)
        second == IF first.kind = "table" /\ Len(self) > 0
                       /\ include_all_custom_properties
                  THEN as_df_custom(c, self, first)
                  ELSE first
    IN IF second.kind = "table" /\ attr_type \notin Range(cols)
       THEN drop(second, attr_type)
       ELSE second

AsDf ==
    /\ df = NoCall
    /\ \E columns \in ColumnArgs, include_all_custom_properties \in BOOLEAN :
          df' = [columns |-> columns,
                 include_all_custom_properties |-> include_all_custom_properties,
                 result |-> as_df(cache, elements, columns,
                                  include_all_custom_properties)]
    /\ UNCHANGED <<cache, elements, find, create, tcall>>

----------------------------------------------------------------------------
(* Filter compilation: _base.parse_filter_parameters. *)

\* str.strip() of spaces
RECURSIVE strip(_)
strip(s) ==
    IF s = <<>> THEN s
    ELSE IF Head(s) = " " THEN strip(Tail(s))
    ELSE IF s[Len(s)] = " " THEN strip(SubSeq(s, 1, Len(s) - 1))
    ELSE s

\* comparison operators of the filter mini-language and their OData tokens
operator_map ==
    << <<<<"<">>, <<"l","t">>>>, <<<<">">>, <<"g","t">>>>, <<<<"<","=">>, <<"l","e">>>>,
       <<<<">","=">>, <<"g","e">>>>, <<<<"=","=">>, <<"e","q">>>>, <<<<"!","=">>, <<"n","e">>>> >>

\* the characters operators are made of
OperatorChars == {"<", ">", "=", "!"}

\* 'name <op> value' split into its three parts: the name ends where the
\* first operator character stands, the operator is the longest one there
parse_expression(expression) ==
    LET at == CHOOSE i \in 1..Len(expression) :
                  /\ expression[i] \in OperatorChars
                  /\ \A j \in 1..(i - 1) : expression[j] \notin OperatorChars
        two == SubSeq(expression, at, at + 1)
        op == IF at < Len(expression) /\ HasKey(operator_map, two)
              THEN two ELSE SubSeq(expression, at, at)
    IN [name |-> strip(SubSeq(expression, 1, at - 1)),
        operator |-> op,
        value |-> strip(SubSeq(expression, at + Len(op), Len(expression)))]

\* f'{key} {operator} {value}'
clause(key, operator, value) == key \o <<" ">> \o operator \o <<" ">> \o value

\* a free-form expression compiled to one clause
compile_expression(expression) ==
    LET parts == parse_expression(expression)
    IN clause(parts.name, Get(operator_map, parts.operator), parts.value)

\* the name a filter key is queried under: the field's query name for a
\* declared attribute, the literal key otherwise
resolve_name(fmap, key) ==
    IF HasKey(fmap, key) THEN Get(fmap, key).query_name ELSE key

\* the literal a filter value is queried as.  The default transformer and
\* the one of an undeclared key are the identity; keys whose field declares
\* _qt_double or _qt_odata_datetimeoffset are outside the model's inputs.
transform_value(fmap, key, value) ==
    IF HasKey(fmap, key)
    THEN (CASE Get(fmap, key).query_transformer = "default" -> value)
    ELSE value

\* a keyword argument's value: a scalar or a list of literals
Scalar(value) == [is_list |-> FALSE, items |-> <<value>>]
List(values) == [is_list |-> TRUE, items |-> values]

\* one 'eq' clause per element of a keyword argument's value
eq_clauses(fmap, key, value) ==
    [i \in 1..Len(value.items) |->
        clause(resolve_name(fmap, key), <<"e","q">>,
               transform_value(fmap, key, value.items[i]))]

\* parse_filter_parameters(equality_filters, extended_filters, field_map):
\* <<unbreakable_filters, breakable_filters>>
parse_filter_parameters(equality_filters, extended_filters, fmap) ==
    LET scalars == SelectSeq(equality_filters, LAMBDA kv : ~kv[2].is_list)
        lists == SelectSeq(equality_filters, LAMBDA kv : kv[2].is_list)
    IN << [i \in 1..Len(scalars) |-> eq_clauses(fmap, scalars[i][1], scalars[i][2])[1]]
            \o [i \in 1..Len(extended_filters) |-> compile_expression(extended_filters[i])],
          [i \in 1..Len(lists) |-> eq_clauses(fmap, lists[i][1], lists[i][2])] >>

----------------------------------------------------------------------------
(* find_alerts. *)

\* _pai_application_url(), _ac_application_url() and the endpoint paths
pai_application_url == "pai_base_url"
ac_application_url == "ac_base_url"
ALERTS_READ_PATH == "ALERTS_READ_PATH"
ALERTS_WRITE_PATH == "ALERTS_WRITE_PATH"

\* [Alert(obj) for obj in object_list]: the alerts, and the cache afterwards
RECURSIVE cache_after_all(_, _)
cache_after_all(c, object_list) ==
    IF object_list = <<>> THEN c
    ELSE cache_after_all(cache_after(c, Head(object_list)), Tail(object_list))

alerts_of(c, object_list) ==
    [i \in 1..Len(object_list) |->
        Alert(cache_after_all(c, SubSeq(object_list, 1, i - 1)), object_list[i])]

\* what _pai_fetch_data does with a call: returns raw objects, or raises
Fetched(objects) == [kind |-> "objects", objects |-> objects]
TransportError == Raise("TransportError")

\* mutant of find_alerts: the two filter lists change places in the fetch call
find_alerts_swapped(c, extended_filters, kwargs, fetched) ==
    LET filters == parse_filter_parameters(kwargs, extended_filters, field_map)
    IN [fetch_call |-> [endpoint_url |-> <<pai_application_url, ALERTS_READ_PATH>>,
                        unbreakable_filters |-> filters[2],
                        breakable_filters |-> filters[1]],
        result |-> IF fetched.kind = "raise" THEN fetched
                   ELSE [kind |-> "AlertSet", elements |-> alerts_of(c, fetched.objects)],
        cache |-> IF fetched.kind = "raise" THEN c
                  ELSE cache_after_all(c, fetched.objects)]

\* mutant of find_alerts: the keyword arguments are not compiled
find_alerts_without_kwargs(c, extended_filters, kwargs, fetched) ==
    LET filters == parse_filter_parameters(<<>>, extended_filters, field_map)
    IN [fetch_call |-> [endpoint_url |-> <<pai_application_url, ALERTS_READ_PATH>>,
                        unbreakable_filters |-> filters[1],
                        breakable_filters |-> filters[2]],
        result |-> IF fetched.kind = "raise" THEN fetched
                   ELSE [kind |-> "AlertSet", elements |-> alerts_of(c, fetched.objects)],
        cache |-> IF fetched.kind = "raise" THEN c
                  ELSE cache_after_all(c, fetched.objects)]

\* mutant of find_alerts: the returned objects are wrapped last to first
find_alerts_reversed(c, extended_filters, kwargs, fetched) ==
    LET filters == parse_filter_parameters(kwargs, extended_filters, field_map)
        reversed(s) == [i \in 1..Len(s) |-> s[Len(s) + 1 - i]]
    IN [fetch_call |-> [endpoint_url |-> <<pai_application_url, ALERTS_READ_PATH>>,
                        unbreakable_filters |-> filters[1],
                        breakable_filters |-> filters[2]],
        result |-> IF fetched.kind = "raise" THEN fetched
                   ELSE [kind |-> "AlertSet",
                         elements |-> alerts_of(c, reversed(fetched.objects))],
        cache |-> IF fetched.kind = "raise" THEN c
                  ELSE cache_after_all(c, fetched.objects)]

\* find_alerts(extended_filters=..., **kwargs), given what the fetch does:
\* the fetch call made, the AlertSet returned or the error propagated, and
\* the cache afterwards
find_alerts(c, extended_filters, kwargs, fetched) ==
    LET filters == parse_filter_parameters(kwargs, extended_filters, field_map)
    IN [fetch_call |-> [endpoint_url |-> <<pai_application_url, ALERTS_READ_PATH>>,
                        unbreakable_filters |-> filters[1],
                        breakable_filters |-> filters[2]],
        result |-> IF fetched.kind = "raise" THEN fetched
                   ELSE [kind |-> "AlertSet", elements |-> alerts_of(c, fetched.objects)],
        cache |-> IF fetched.kind = "raise" THEN c
                  ELSE cache_after_all(c, fetched.objects)]

MaxFilters == 2     \* free-form expressions in one call
MaxFetched == 2     \* raw objects one fetch returns

\* sequences over a set, up to a length
SeqsUpTo(S, n) == UNION {[1..k -> S] : k \in 0..n}

\* free-form expressions, one for each operator
Expressions ==
    { <<"x"," ","<"," ","1","0">>, <<"x"," ",">"," ","1","0">>, <<"y","<","=","5">>, <<"y"," ",">","="," ","5">>, <<"x"," ","=","="," ","1">>, <<"y","!","=","1">> }

ExtendedFilterArgs == SeqsUpTo(Expressions, MaxFilters)

key_unknown_param == <<"u","n","k","n","o","w","n","_","p","a","r","a","m">>

FilterValues ==
    { Scalar(<<"'","A","'">>), List(<<<<"'","A","'">>, <<"'","F","'">>>>) }

\* **kwargs: keyword arguments in call order, no keyword twice
KwargArgs ==
    LET one(k) == {<< <<k, v>> >> : v \in FilterValues}
        two(k1, k2) == {<< <<k1, v1>>, <<k2, v2>> >> :
                           v1 \in FilterValues, v2 \in FilterValues}
    IN {<<>>} \cup one(attr_id) \cup one(key_unknown_param)
         \cup two(attr_id, key_unknown_param) \cup two(key_unknown_param, attr_id)

\* raw objects a fetch may return
FetchedObjects ==
    { << <<wire_AlertId, "id1">>, <<key_Z_mycustom, "mycustom">> >>,
      << <<wire_AlertId, "id2">>, <<wire_AlertType, "TypeB">>,
         <<key_z_another, "another">> >> }

FetchOutcomes ==
    {TransportError} \cup {Fetched(objects) : objects \in SeqsUpTo(FetchedObjects, MaxFetched)}

FindAlerts ==
    /\ find = NoCall
    /\ create.pc = "idle"
    /\ \E extended_filters \in ExtendedFilterArgs, kwargs \in KwargArgs,
          fetched \in FetchOutcomes :
          LET done == find_alerts(cache, extended_filters, kwargs, fetched)
          IN /\ find' = [extended_filters |-> extended_filters,
                         kwargs |-> kwargs,
                         fetched |-> fetched,
                         fetch_calls |-> <<done.fetch_call>>,
                         result |-> done.result]
             /\ cache' = done.cache
    /\ UNCHANGED <<elements, df, create, tcall>>

----------------------------------------------------------------------------
(* create_alert. *)

\* bytes.decode('utf-8')
decode(response) == response.bytes

\* the identifier as an OData string literal
quoted(id) == <<"'">> \o id \o <<"'">>

\* the check create_alert makes on the verification read
create_result(found) ==
    IF found.kind = "raise" THEN found
    ELSE IF Len(found.elements) # 1
    THEN [kind |-> "raise", error |-> "RuntimeError", message |-> "Unexpected error"]
    ELSE [kind |-> "Alert", alert |-> found.elements[1]]

\* keyword arguments of a create call, and identifiers the write may return
CreateArgs ==
    { << <<<<"p","a","r","a","m","1">>, "abc123">> >>,
      << <<<<"p","a","r","a","m","1">>, "abc123">>, <<<<"p","a","r","a","m","2">>, "def456">> >>,
      <<>> }
WrittenIds == { <<"1","2","a","b">>, <<"3","4","c","d">> }
PostOutcomes == {TransportError} \cup {[kind |-> "bytes", bytes |-> id] : id \in WrittenIds}

Idle == [pc |-> "idle"]

\* request = _AlertWriteRequest(...); request.validate()
CreateValidate ==
    /\ find = NoCall
    /\ create.pc = "idle"
    /\ \E kwargs \in CreateArgs, valid \in BOOLEAN :
          create' = IF valid
                    THEN [pc |-> "post", kwargs |-> kwargs, requests |-> <<>>]
                    ELSE [pc |-> "done", kwargs |-> kwargs, requests |-> <<>>,
                          result |-> Raise("ValidationError")]
    /\ UNCHANGED <<cache, elements, df, find, tcall>>

\* response = oauth_client.request('POST', endpoint_url, json=request.data)
CreatePost ==
    /\ create.pc = "post"
    /\ \E response \in PostOutcomes :
       LET sent == Append(create.requests,
                          [method |-> "POST",
                           url |-> <<ac_application_url, ALERTS_WRITE_PATH>>,
                           json |-> create.kwargs])
       IN create' = IF response.kind = "raise"
                    THEN [pc |-> "done", kwargs |-> create.kwargs, requests |-> sent,
                          result |-> response]
                    ELSE [pc |-> "find", kwargs |-> create.kwargs, requests |-> sent,
                          response |-> response]
    /\ UNCHANGED <<cache, elements, df, find, tcall>>

\* result = find_alerts(id=...); exactly one result is returned as the Alert
CreateFind ==
    /\ create.pc = "find"
    /\ \E fetched \in FetchOutcomes :
       LET found == find_alerts(cache, <<>>,
                                << <<attr_id, Scalar(quoted(decode(create.response)))>> >>,
                                fetched)
       IN /\ create' = [pc |-> "done", kwargs |-> create.kwargs,
                        requests |-> Append(create.requests,
                                            [method |-> "GET", fetch |-> found.fetch_call]),
                        response |-> create.response,
                        fetched |-> fetched,
                        result |-> create_result(found.result)]
          /\ cache' = found.cache
    /\ UNCHANGED <<elements, df, find, tcall>>

----------------------------------------------------------------------------
(* Timestamps: sailor/utils/timestamps.py.                                 *)
(* A pd.Timestamp or datetime is its wall-clock reading in seconds since   *)
(* 1970-01-01 00:00:00, whether it carries a timezone, and that timezone's *)
(* UTC offset in seconds; a datetime.date is a day number since 1970-01-01.*)
(* A pd.Timedelta is a number of ticks of 100 ms.                          *)

SecondsPerDay == 24 * 60 * 60

Timestamp(wall, aware, offset) == [wall |-> wall, aware |-> aware, offset |-> offset]

\* days since 1970-01-01 of a calendar date (proleptic Gregorian)
days_from_civil(y, m, d) ==
    LET yy == IF m <= 2 THEN y - 1 ELSE y
        era == yy \div 400
        yoe == yy - era * 400
        mp == IF m > 2 THEN m - 3 ELSE m + 9
        doy == (153 * mp + 2) \div 5 + d - 1
        doe == yoe * 365 + yoe \div 4 - yoe \div 100 + doy
    IN era * 146097 + doe - 719468

\* the calendar date of a day number: <<year, month, day>>
civil_from_days(days) ==
    LET z == days + 719468
        era == z \div 146097
        doe == z - era * 146097
        yoe == (doe - doe \div 1460 + doe \div 36524 - doe \div 146096) \div 365
        doy == doe - (365 * yoe + yoe \div 4 - yoe \div 100)
        mp == (5 * doy + 2) \div 153
        d == doy - (153 * mp + 2) \div 5 + 1
        m == IF mp < 10 THEN mp + 3 ELSE mp - 9
        y == yoe + era * 400
    IN <<IF m <= 2 THEN y + 1 ELSE y, m, d>>

\* the decimal digit of a value below ten
DigitChar(n) ==
    CASE n = 0 -> "0" [] n = 1 -> "1" [] n = 2 -> "2" [] n = 3 -> "3"
      [] n = 4 -> "4" [] n = 5 -> "5" [] n = 6 -> "6" [] n = 7 -> "7"
      [] n = 8 -> "8" [] n = 9 -> "9"

\* a number printed with leading zeros to a width
RECURSIVE zero_padded(_, _)
zero_padded(n, width) ==
    IF width = 0 THEN <<>>
    ELSE Append(zero_padded(n \div 10, width - 1), DigitChar(n % 10))

\* str(date): YYYY-MM-DD
date_to_str(days) ==
    LET ymd == civil_from_days(days)
    IN zero_padded(ymd[1], 4) \o <<"-">> \o zero_padded(ymd[2], 2)
         \o <<"-">> \o zero_padded(ymd[3], 2)

Digits == {"0", "1", "2", "3", "4", "5", "6", "7", "8", "9"}

\* every position of a string holds a digit, but for the given separators
HasShape(s, separators) ==
    \A i \in 1..Len(s) :
        IF HasKey(separators, i) THEN s[i] \in Get(separators, i) ELSE s[i] \in Digits

DateShape == << <<5, {"-"}>>, <<8, {"-"}>> >>
TimeShape == << <<3, {":"}>>, <<6, {":"}>> >>
OffsetShape == << <<1, {"+", "-"}>>, <<4, {":"}>> >>

\* the day number an ISO 8601 date YYYY-MM-DD names
parse_date(s) ==
    days_from_civil(ParseNumber(SubSeq(s, 1, 4)), ParseNumber(SubSeq(s, 6, 7)),
                    ParseNumber(SubSeq(s, 9, 10)))

\* the seconds since midnight HH:MM:SS names
parse_time(s) ==
    ParseNumber(SubSeq(s, 1, 2)) * 3600 + ParseNumber(SubSeq(s, 4, 5)) * 60
        + ParseNumber(SubSeq(s, 7, 8))

\* the UTC offset in seconds +HH:MM or -HH:MM names
parse_offset(s) ==
    (IF s[1] = "-" THEN -1 ELSE 1)
        * (ParseNumber(SubSeq(s, 2, 3)) * 3600 + ParseNumber(SubSeq(s, 5, 6)) * 60)

\* the ISO 8601 strings the model parses: a date, a date and time, and a
\* date and time with Z or a UTC offset
IsIsoDate(s) == Len(s) = 10 /\ HasShape(s, DateShape)
IsIsoDateTime(s) ==
    /\ Len(s) >= 19
    /\ HasShape(SubSeq(s, 1, 10), DateShape)
    /\ s[11] \in {" ", "T"}
    /\ HasShape(SubSeq(s, 12, 19), TimeShape)
    /\ \/ Len(s) = 19
       \/ Len(s) = 20 /\ s[20] = "Z"
       \/ Len(s) = 25 /\ HasShape(SubSeq(s, 20, 25), OffsetShape)
IsIso(s) == IsIsoDate(s) \/ IsIsoDateTime(s)

\* pd.Timestamp(value) for a string: the timestamp it names; a string that
\* names none raises ValueError
timestamp_from_str(s) ==
    IF IsIsoDate(s) THEN Timestamp(parse_date(s) * SecondsPerDay, FALSE, 0)
    ELSE LET wall == parse_date(SubSeq(s, 1, 10)) * SecondsPerDay
                        + parse_time(SubSeq(s, 12, 19))
         IN IF Len(s) = 19 THEN Timestamp(wall, FALSE, 0)
            ELSE IF Len(s) = 20 THEN Timestamp(wall, TRUE, 0)
            ELSE Timestamp(wall, TRUE, parse_offset(SubSeq(s, 20, 25)))

\* pd.Timestamp(value) for a datetime.date: midnight, no timezone
timestamp_from_date(days) == Timestamp(days * SecondsPerDay, FALSE, 0)

\* timestamp.tz_convert('UTC'): the same instant read on the UTC clock
tz_convert_utc(timestamp) == Timestamp(timestamp.wall - timestamp.offset, TRUE, 0)

\* timestamp.tz_localize('UTC'): the same reading, now on the UTC clock
tz_localize_utc(timestamp) == Timestamp(timestamp.wall, TRUE, 0)

\* timestamp.tz_localize(None): the same reading without timezone
tz_localize_none(timestamp) == Timestamp(timestamp.wall, FALSE, 0)

\* the classes a value is an instance of: pd.Timestamp derives from
\* datetime.datetime, which derives from datetime.date
ClassesOf(value) ==
    CASE value.kind = "Timestamp" -> {"Timestamp", "datetime", "date"}
      [] value.kind = "datetime" -> {"datetime", "date"}
      [] OTHER -> {value.kind}

isinstance(value, class) == class \in ClassesOf(value)

Returned(value, warnings) == [kind |-> "return", value |-> value, warnings |-> warnings]
Raised(error) == [kind |-> "raise", error |-> error, warnings |-> <<>>]

NaiveWarning == "Trying to parse non-timezone-aware timestamp, assuming UTC."
LossyWarning == "Casting timestamp to date, this operation will lose time-of-day information."

\* mutant of to_utc: a timezone-aware reading is relabelled, not converted
to_utc_relabelled(timestamp) ==
    IF timestamp.aware
    THEN Returned(tz_localize_utc(timestamp), <<>>)
    ELSE Returned(tz_localize_utc(timestamp), <<NaiveWarning>>)

\* the tail of _any_to_timestamp: convert or localize to UTC
to_utc(timestamp) ==
    IF timestamp.aware
    THEN Returned(tz_convert_utc(timestamp), <<>>)
    ELSE Returned(tz_localize_utc(timestamp), <<NaiveWarning>>)

\* _any_to_timestamp(value, default)
any_to_timestamp(value, default) ==
    IF value.kind = "None" THEN Returned(default, <<>>)
    ELSE IF isinstance(value, "str")
    THEN IF IsIso(value.text) THEN to_utc(timestamp_from_str(value.text))
         ELSE Raised("ValueError")
    ELSE IF isinstance(value, "datetime") THEN to_utc(value.timestamp)
    ELSE IF isinstance(value, "date") THEN to_utc(timestamp_from_date(value.days))
    ELSE IF isinstance(value, "Timestamp") THEN to_utc(value.timestamp)
    ELSE Raised("RuntimeError")

\* mutant of timestamp_to_date_string: the conversion to UTC is missing
timestamp_to_date_string_local(timestamp) ==
    LET naive == tz_localize_none(timestamp)
        date == naive.wall \div SecondsPerDay
    IN Returned(date_to_str(date),
                IF timestamp_from_date(date) # naive THEN <<LossyWarning>> ELSE <<>>)

\* _timestamp_to_date_string(timestamp)
timestamp_to_date_string(timestamp) ==
    LET utc == IF timestamp.aware THEN tz_convert_utc(timestamp) ELSE timestamp
        naive == tz_localize_none(utc)
        date == naive.wall \div SecondsPerDay
    IN Returned(date_to_str(date),
                IF timestamp_from_date(date) # naive THEN <<LossyWarning>> ELSE <<>>)

\* pd.Timedelta(x) of the catalog's strings, in ticks of 100 ms
Timedelta(count, unit) ==
    count * (CASE unit = "s" -> 10
               [] unit = "min" -> 600
               [] unit = "h" -> 36000
               [] unit = "d" -> 864000)

good_intervals ==
    << Timedelta(1, "s"), Timedelta(5, "s"), Timedelta(15, "s"),
       Timedelta(1, "min"), Timedelta(5, "min"), Timedelta(15, "min"),
       Timedelta(1, "h"), Timedelta(4, "h"), Timedelta(12, "h"),
       Timedelta(1, "d"), Timedelta(3, "d"), Timedelta(7, "d"), Timedelta(30, "d") >>

\* max() and min() of a non-empty collection
Max(S) == CHOOSE x \in S : \A y \in S : y <= x
Min(S) == CHOOSE x \in S : \A y \in S : x <= y

\* mutant of calculate_nice_sub_intervals: the clamp to the smallest entry is
\* missing, and max() of an empty filter raises ValueError
calculate_nice_sub_intervals_unclamped(interval, n_breaks) ==
    LET target_break_interval == interval \div n_breaks
        candidates == {x \in Range(good_intervals) : x <= target_break_interval}
    IN IF candidates = {} THEN Raised("ValueError")
       ELSE Returned(Max(candidates), <<>>)

\* _calculate_nice_sub_intervals(interval, n_breaks)
calculate_nice_sub_intervals(interval, n_breaks) ==
    LET target_break_interval ==
            Max({interval \div n_breaks, Min(Range(good_intervals))})
        candidates == {x \in Range(good_intervals) : x <= target_break_interval}
    IN IF candidates = {} THEN Raised("ValueError")
       ELSE Returned(Max(candidates), <<>>)

HourSpan == 6       \* hours before and after 2021-01-01 00:00 a reading lies
MaxMultiple == 3    \* multiples of a catalog entry an interval is near
MaxBreaks == 4      \* n_breaks

\* 2021-01-01 00:00:00
Midnight == days_from_civil(2021, 1, 1) * SecondsPerDay

\* UTC offsets of the timezone-aware inputs: UTC, +04:00, -05:00, +05:30
Offsets == {0, 4 * 3600, -5 * 3600, 5 * 3600 + 30 * 60}

TimestampInputs ==
    LET walls == {Midnight + h * 3600 + s : h \in (-HourSpan)..HourSpan, s \in {0, 59}}
    IN {Timestamp(w, FALSE, 0) : w \in walls}
         \cup {Timestamp(w, TRUE, o) : w \in walls, o \in Offsets}

StringInputs ==
    { <<"2","0","2","1","-","0","1","-","0","1"," ","1","8",":","0","0",":","0","0","+","0","2",":","0","0">>, <<"2","0","2","1","-","0","1","-","0","1","T","0","2",":","0","0",":","0","0","-","0","5",":","0","0">>,
      <<"2","0","2","1","-","0","1","-","0","1"," ","1","6",":","0","0",":","0","0">>, <<"2","0","2","1","-","0","1","-","0","1","T","0","0",":","0","0",":","0","0","Z">>, <<"2","0","2","1","-","0","1","-","0","1">>,
      <<"2","0","2","0","-","0","2","-","2","9">>, <<"y","e","s","t","e","r","d","a","y">>, <<"2","0","2","1","-","1","3">> }

AnyValues ==
    {[kind |-> "None"]}
      \cup {[kind |-> "str", text |-> s] : s \in StringInputs}
      \cup {[kind |-> k, timestamp |-> t] : k \in {"datetime", "Timestamp"}, t \in TimestampInputs}
      \cup {[kind |-> "date", days |-> Midnight \div SecondsPerDay + d] : d \in {-1, 0, 59}}
      \cup {[kind |-> k] : k \in {"int", "float", "list"}}

Defaults == {[kind |-> "None"], Timestamp(Midnight, TRUE, 0)}

IntervalInputs ==
    {i \in {e * k + d : e \in Range(good_intervals) \cup {5}, k \in 1..MaxMultiple,
                        d \in {-1, 0, 1}} : i > 0}

\* no timestamp helper called yet
NoTimestampCall == [op |-> "none"]

AnyToTimestamp ==
    /\ tcall = NoTimestampCall
    /\ \E value \in AnyValues, default \in Defaults :
          tcall' = [op |-> "any_to_timestamp", value |-> value, default |-> default,
                    result |-> any_to_timestamp(value, default)]
    /\ UNCHANGED <<cache, elements, df, find, create>>

TimestampToDateString ==
    /\ tcall = NoTimestampCall
    /\ \E timestamp \in TimestampInputs :
          tcall' = [op |-> "timestamp_to_date_string", timestamp |-> timestamp,
                    result |-> timestamp_to_date_string(timestamp)]
    /\ UNCHANGED <<cache, elements, df, find, create>>

CalculateNiceSubIntervals ==
    /\ tcall = NoTimestampCall
    /\ \E interval \in IntervalInputs, n_breaks \in 1..MaxBreaks :
          tcall' = [op |-> "calculate_nice_sub_intervals", interval |-> interval,
                    n_breaks |-> n_breaks,
                    result |-> calculate_nice_sub_intervals(interval, n_breaks)]
    /\ UNCHANGED <<cache, elements, df, find, create>>

----------------------------------------------------------------------------
(* Specifications. *)

Init ==
    /\ cache = <<>>
    /\ elements = <<>>
    /\ df = NoCall
    /\ find = NoCall
    /\ create = Idle
    /\ tcall = NoTimestampCall

\* building an AlertSet and rendering it
Next == NewAlert \/ AsDf

Spec == Init /\ [][Next]_vars

\* the finder and creator facade
NextFacade == FindAlerts \/ CreateValidate \/ CreatePost \/ CreateFind

SpecFacade == Init /\ [][NextFacade]_vars

\* the timestamp helpers
NextTimestamps == AnyToTimestamp \/ TimestampToDateString \/ CalculateNiceSubIntervals

SpecTimestamps == Init /\ [][NextTimestamps]_vars

----------------------------------------------------------------------------
(* Properties of Alert and AlertSet.as_df, checked under Spec. *)

\* a call of as_df has returned or raised
Called == df.result.kind # "none"

\* the custom property keys of a raw object: raw keys starting with Z_ or z_
CustomKeys(raw) ==
    {raw[i][1] : i \in {j \in 1..Len(raw) :
                          startswith(raw[j][1], prefix_Z) \/ startswith(raw[j][1], prefix_z)}}

\* the 'type' values the alerts of the set carry
TypeValues == {Get(elements[i].raw, wire_AlertType) : i \in 1..Len(elements)}

\* the alerts of the set have pairwise distinct identifiers, so that no two
\* of them share a memoized bag
DistinctIds ==
    \A i, j \in 1..Len(elements) :
        CacheKey(elements[i].raw) = CacheKey(elements[j].raw) => i = j

\* number of header positions holding a name
Occurrences(header, name) == Cardinality({j \in 1..Len(header) : header[j] = name})

\* C1: for a non-empty AlertSet whose alerts share one type (and have
\* pairwise distinct identifiers),
\* as_df(include_all_custom_properties=True) returns a table whose columns
\* hold every custom property key present in any element, besides the
\* requested declared columns.
C1_ColumnsHoldEveryCustomKey ==
    (/\ Called
     /\ ~df.columns.given
     /\ df.include_all_custom_properties
     /\ Len(elements) > 0
     /\ DistinctIds
     /\ Cardinality(TypeValues) = 1
     /\ None \notin TypeValues)
    => /\ df.result.kind = "table"
       /\ \A i \in 1..Len(elements) :
              CustomKeys(elements[i].raw) \subseteq Range(df.result.header)
       /\ Range(DefaultColumns) \subseteq Range(df.result.header)

\* C2: for a non-empty AlertSet whose alerts (with pairwise distinct
\* identifiers) carry more than one distinct type value, as_df(include_all_custom_properties=True) fails with the
\* RuntimeError, and as_df(include_all_custom_properties=False) does not raise.
C2_MixedTypesRaise ==
    (/\ Called
     /\ ~df.columns.given
     /\ DistinctIds
     /\ Cardinality(TypeValues) > 1)
    => IF df.include_all_custom_properties
       THEN df.result = Raise("RuntimeError")
       ELSE df.result.kind = "table"

\* C3: when as_df does not raise, the table has a 'type' column exactly when
\* 'type' is requested and every requested column is a header exactly once;
\* an empty set gives an empty table with exactly the requested headers.
C3_RequestedColumnsOnce ==
    Called =>
        /\ df.result.kind = "table" =>
              /\ attr_type \in Range(df.result.header)
                    <=> attr_type \in Range(requested(df.columns))
              /\ \A name \in Range(requested(df.columns)) :
                    Occurrences(df.result.header, name) = 1
        /\ elements = <<>> =>
              /\ df.result.kind = "table"
              /\ df.result.rows = <<>>
              /\ Range(df.result.header) = Range(requested(df.columns))
              /\ \A name \in Range(df.result.header) :
                    Occurrences(df.result.header, name) = 1

\* C3 witness: the union branch ran on a non-empty set and 'type', not
\* requested, was dropped from the merged table.
C3_Witness ==
    /\ Called
    /\ Len(elements) > 0
    /\ df.include_all_custom_properties
    /\ df.columns = Columns(<<attr_id>>)
    /\ df.result.kind = "table"
    /\ key_Z_mycustom \in Range(df.result.header)
    /\ attr_type \notin Range(df.result.header)

\* the declared wire names
WireNames == {ALERT_FIELDS[i].wire_name : i \in 1..Len(ALERT_FIELDS)}

\* the sub-mapping of raw the custom-property bag is specified to be
SpecifiedBag(raw) ==
    SelectSeq(raw, LAMBDA kv : kv[1] \in CustomKeys(raw) /\ kv[1] \notin WireNames)

\* C7: the custom-property bag of every Alert is the sub-mapping of its raw
\* object on the Z_/z_ keys no declared field covers, every key of the bag
\* is an attribute of the Alert with the raw value, and the bag is the same
\* on every later access.
C7_BagIsCustomPartOfRaw ==
    \A i \in 1..Len(elements) :
        /\ custom_properties(cache, elements[i]) = SpecifiedBag(elements[i].raw)
        /\ elements[i].attrs = SpecifiedBag(elements[i].raw)

\* expected_attributes of test_expected_public_attributes_are_present
expected_attributes == <<
    <<"d","e","s","c","r","i","p","t","i","o","n">>,
    <<"s","e","v","e","r","i","t","y","_","c","o","d","e">>,
    <<"c","a","t","e","g","o","r","y">>,
    <<"e","q","u","i","p","m","e","n","t","_","n","a","m","e">>,
    <<"m","o","d","e","l","_","n","a","m","e">>,
    <<"i","n","d","i","c","a","t","o","r","_","n","a","m","e">>,
    <<"i","n","d","i","c","a","t","o","r","_","g","r","o","u","p","_","n","a","m","e">>,
    <<"t","e","m","p","l","a","t","e","_","n","a","m","e">>,
    <<"c","o","u","n","t">>,
    <<"s","t","a","t","u","s","_","c","o","d","e">>,
    <<"t","r","i","g","g","e","r","e","d","_","o","n">>,
    <<"l","a","s","t","_","o","c","c","u","r","e","d","_","o","n">>,
    <<"t","y","p","e","_","d","e","s","c","r","i","p","t","i","o","n">>,
    <<"e","r","r","o","r","_","c","o","d","e","_","d","e","s","c","r","i","p","t","i","o","n">>,
    <<"t","y","p","e">>,
    <<"s","o","u","r","c","e">>,
    <<"i","d">>,
    <<"e","q","u","i","p","m","e","n","t","_","i","d">>,
    <<"m","o","d","e","l","_","i","d">>,
    <<"t","e","m","p","l","a","t","e","_","i","d">>,
    <<"i","n","d","i","c","a","t","o","r","_","i","d">>,
    <<"i","n","d","i","c","a","t","o","r","_","g","r","o","u","p","_","i","d">>,
    <<"n","o","t","i","f","i","c","a","t","i","o","n","_","i","d">>,
    <<"e","r","r","o","r","_","c","o","d","e","_","i","d">>
>>

\* C6: attribute names of the Alert field table are pairwise distinct, so the
\* field map loses no field, and the exposed-attribute listing holds no name
\* starting with '_' and is exactly the 24 public names, in declaration order;
\* a default-column as_df call returns a table with exactly those columns.
C6_FieldTable ==
    /\ \A i, j \in 1..Len(ALERT_FIELDS) :
          ALERT_FIELDS[i].our_name = ALERT_FIELDS[j].our_name => i = j
    /\ Len(field_map) = Len(ALERT_FIELDS)
    /\ \A name \in Range(DefaultColumns) : ~startswith(name, <<"_">>)
    /\ Len(DefaultColumns) = 24
    /\ DefaultColumns = expected_attributes
    /\ (Called /\ ~df.columns.given /\ ~df.include_all_custom_properties)
          => /\ df.result.kind = "table"
             /\ df.result.header = expected_attributes
             /\ \A name \in Range(df.result.header) : ~startswith(name, <<"_">>)

\* C6 witness: a default-column as_df call lists exactly the public names
C6_Witness ==
    /\ Called
    /\ ~df.columns.given
    /\ ~df.include_all_custom_properties
    /\ Len(elements) > 0
    /\ df.result.kind = "table"
    /\ df.result.header = expected_attributes

----------------------------------------------------------------------------
(* Properties of create_alert and find_alerts, checked under SpecFacade. *)

\* the read endpoint and the filter a verification read must carry
ReadOf(id) ==
    [method |-> "GET",
     fetch |-> [endpoint_url |-> <<pai_application_url, ALERTS_READ_PATH>>,
                unbreakable_filters |-> <<<<"A","l","e","r","t","I","d"," ","e","q"," ","'">> \o id \o <<"'">>>>,
                breakable_filters |-> <<>>]]

\* the write create_alert must have posted
PostOf(kwargs) ==
    [method |-> "POST", url |-> <<ac_application_url, ALERTS_WRITE_PATH>>,
     json |-> kwargs]

\* C4: create_alert posts to the write endpoint, then issues exactly one read
\* on the read endpoint filtered by AlertId eq '<id returned by the post>';
\* it returns the Alert wrapping the returned raw object exactly when that
\* read returns one result, and raises RuntimeError ('Unexpected error')
\* when it returns none or several.
C4_CreateRoundTrip ==
    /\ create.pc = "post" => create.requests = <<>>
    /\ create.pc = "find" => create.requests = <<PostOf(create.kwargs)>>
    /\ (create.pc = "done" /\ "response" \in DOMAIN create) =>
          /\ create.requests
                = <<PostOf(create.kwargs), ReadOf(create.response.bytes)>>
          /\ create.fetched.kind = "objects" =>
                IF Len(create.fetched.objects) = 1
                THEN /\ create.result.kind = "Alert"
                     /\ create.result.alert.raw = create.fetched.objects[1]
                ELSE /\ create.result.kind = "raise"
                     /\ create.result.error = "RuntimeError"
                     /\ create.result.message = "Unexpected error"

\* C4 witness: the post returned an identifier, the read one object, and
\* create_alert the Alert wrapping it
C4_Witness ==
    /\ create.pc = "done"
    /\ Len(create.requests) = 2
    /\ create.fetched.kind = "objects"
    /\ Len(create.fetched.objects) = 1
    /\ create.result.kind = "Alert"

\* the clause every expression of the model's inputs must compile to
ExpectedClause ==
    << <<<<"x"," ","<"," ","1","0">>, <<"x"," ","l","t"," ","1","0">>>>, <<<<"x"," ",">"," ","1","0">>, <<"x"," ","g","t"," ","1","0">>>>,
       <<<<"y","<","=","5">>, <<"y"," ","l","e"," ","5">>>>, <<<<"y"," ",">","="," ","5">>, <<"y"," ","g","e"," ","5">>>>,
       <<<<"x"," ","=","="," ","1">>, <<"x"," ","e","q"," ","1">>>>, <<<<"y","!","=","1">>, <<"y"," ","n","e"," ","1">>>> >>

\* the name a keyword of the model's inputs must be queried under
ExpectedName(key) == IF key = attr_id THEN <<"A","l","e","r","t","I","d">> ELSE key

\* '<name> eq <literal>'
ExpectedEq(key, literal) == ExpectedName(key) \o <<" ","e","q"," ">> \o literal

\* how often a value occurs in a sequence
Count(s, x) == Cardinality({i \in 1..Len(s) : s[i] = x})

\* the one fetch call of the find_alerts call
FetchCall == find.fetch_calls[1]

\* C5: the fetch is called with one unbreakable clause for every free-form
\* expression (operator mapped to lt, gt, le, ge, eq, ne) and for every
\* scalar-valued key ('<query_name> eq <literal>'), and with one breakable
\* group for every list-valued key, in key order, holding one eq clause for
\* every element in element order; an undeclared key keeps its literal name.
C5_FetchCallArgs ==
    find # NoCall =>
        LET scalars == SelectSeq(find.kwargs, LAMBDA kv : ~kv[2].is_list)
            lists == SelectSeq(find.kwargs, LAMBDA kv : kv[2].is_list)
            expected ==
                [i \in 1..Len(find.extended_filters) |->
                    Get(ExpectedClause, find.extended_filters[i])]
                  \o [i \in 1..Len(scalars) |->
                        ExpectedEq(scalars[i][1], scalars[i][2].items[1])]
        IN /\ Len(find.fetch_calls) = 1
           /\ FetchCall.endpoint_url = <<pai_application_url, ALERTS_READ_PATH>>
           /\ Len(FetchCall.unbreakable_filters) = Len(expected)
           /\ \A c \in Range(expected) :
                 Count(FetchCall.unbreakable_filters, c) = Count(expected, c)
           /\ FetchCall.breakable_filters
                 = [i \in 1..Len(lists) |->
                      [j \in 1..Len(lists[i][2].items) |->
                          ExpectedEq(lists[i][1], lists[i][2].items[j])]]

\* C5 witness: extended_filters=['x < 10'], unknown_param=["'A'", "'F'"] is
\* fetched with ['x lt 10'] and [["unknown_param eq 'A'", "unknown_param eq 'F'"]]
C5_Witness ==
    /\ find # NoCall
    /\ find.extended_filters = <<<<"x"," ","<"," ","1","0">>>>
    /\ find.kwargs = << <<key_unknown_param, List(<<<<"'","A","'">>, <<"'","F","'">>>>)>> >>
    /\ FetchCall.unbreakable_filters = <<<<"x"," ","l","t"," ","1","0">>>>
    /\ FetchCall.breakable_filters
          = << <<<<"u","n","k","n","o","w","n","_","p","a","r","a","m"," ","e","q"," ","'","A","'">>, <<"u","n","k","n","o","w","n","_","p","a","r","a","m"," ","e","q"," ","'","F","'">>>> >>

\* equality of two entity sets: the same length and, place by place, elements
\* that are equal as entities (equality follows the identifier)
EntitySetsEqual(a, b) ==
    /\ Len(a) = Len(b)
    /\ \A i \in 1..Len(a) : CacheKey(a[i].raw) = CacheKey(b[i].raw)

\* C11: find_alerts returns an AlertSet with exactly one Alert for every raw
\* object the fetch returned, in the same order, each Alert's raw being the
\* corresponding object, so that it equals the AlertSet built directly from
\* those objects; an error raised by the fetch reaches the caller as it is
\* and no AlertSet is returned.
C11_OneAlertPerFetchedObject ==
    find # NoCall =>
        IF find.fetched.kind = "raise"
        THEN /\ find.result = find.fetched
             /\ find.result.kind # "AlertSet"
        ELSE LET objects == find.fetched.objects
             IN /\ find.result.kind = "AlertSet"
                /\ Len(find.result.elements) = Len(objects)
                /\ \A i \in 1..Len(objects) : find.result.elements[i].raw = objects[i]
                /\ EntitySetsEqual(find.result.elements, alerts_of(cache, objects))
                /\ find.result.elements = alerts_of(cache, objects)

\* C11 witness: the fetch returned two different objects and find_alerts the
\* AlertSet of the two Alerts wrapping them, in the order of the fetch
C11_Witness ==
    /\ find # NoCall
    /\ find.fetched.kind = "objects"
    /\ Len(find.fetched.objects) = 2
    /\ find.fetched.objects[1] # find.fetched.objects[2]
    /\ Get(find.fetched.objects[1], wire_AlertId) = "id2"
    /\ find.result.kind = "AlertSet"
    /\ Len(find.result.elements) = 2
    /\ find.result.elements[1].raw = find.fetched.objects[1]
    /\ find.result.elements[2].raw = find.fetched.objects[2]

----------------------------------------------------------------------------
(* Properties of the timestamp helpers, checked under SpecTimestamps. *)

\* the reading of a timestamp on the UTC clock; one without timezone reads
\* as it stands
UtcWall(timestamp) ==
    IF timestamp.aware THEN timestamp.wall - timestamp.offset ELSE timestamp.wall

\* C8: _timestamp_to_date_string returns the calendar date of the timestamp
\* after conversion to UTC, and warns of the lossy cast exactly when the UTC
\* time of day is not midnight.
C8_DateStringOfUtcDay ==
    tcall.op = "timestamp_to_date_string" =>
        LET utc == UtcWall(tcall.timestamp)
            r == tcall.result
        IN /\ r.kind = "return"
           /\ IsIsoDate(r.value)
           /\ parse_date(r.value) * SecondsPerDay <= utc
           /\ utc < (parse_date(r.value) + 1) * SecondsPerDay
           /\ r.warnings = IF utc % SecondsPerDay # 0 THEN <<LossyWarning>> ELSE <<>>

\* C8 witness: 2021-01-01 02:00 at UTC+04:00 gives '2020-12-31' and warns
C8_Witness ==
    /\ tcall.op = "timestamp_to_date_string"
    /\ tcall.timestamp = Timestamp(Midnight + 2 * 3600, TRUE, 4 * 3600)
    /\ tcall.result = Returned(<<"2","0","2","0","-","1","2","-","3","1">>, <<LossyWarning>>)

\* the timestamp a parseable value of _any_to_timestamp names
NamedTimestamp(value) ==
    CASE value.kind = "str" -> timestamp_from_str(value.text)
      [] value.kind = "date" -> Timestamp(value.days * SecondsPerDay, FALSE, 0)
      [] OTHER -> value.timestamp

\* what C9 says of a value that names a timestamp: a UTC instant, converted
\* if the value carries a timezone, else its reading kept and a warning
ReturnsUtcInstant(value, result) ==
    LET named == NamedTimestamp(value)
    IN /\ result.kind = "return"
       /\ result.value = Timestamp(UtcWall(named), TRUE, 0)
       /\ result.warnings = IF named.aware THEN <<>> ELSE <<NaiveWarning>>

TimestampKinds == {"str", "date", "datetime", "Timestamp"}

Catalog ==
    {10, 50, 150, 600, 3000, 9000, 36000, 144000, 432000, 864000, 2592000,
     6048000, 25920000}

\* C10: for a positive interval and n_breaks >= 1,
\* _calculate_nice_sub_intervals returns without error the largest catalog
\* entry that is <= interval / n_breaks, and the smallest entry, 1s, when
\* interval / n_breaks is shorter than 1s.
C10_LargestEntryThatFits ==
    tcall.op = "calculate_nice_sub_intervals" =>
        LET r == tcall.result
            fits(e) == e * tcall.n_breaks <= tcall.interval
        IN /\ r.kind = "return"
           /\ r.value \in Catalog
           /\ IF fits(10)
              THEN fits(r.value) /\ \A e \in Catalog : fits(e) => e <= r.value
              ELSE r.value = 10

\* C10 witness: 500 ms in 4 breaks gives 1s
C10_Witness ==
    /\ tcall.op = "calculate_nice_sub_intervals"
    /\ tcall.interval = 5
    /\ tcall.n_breaks = 4
    /\ tcall.result = Returned(10, <<>>)

====
